---- MODULE Spec2Model ----
(***************************************************************************)
(* Model of the gRPC request Director of internal/machine/api/proxy        *)
(* (director.go lines 1-126): routing of a call to the local backend or to *)
(* cached remote backends, the remote-backend cache (a sync.Map), and the  *)
(* FlushRemoteBackends / Close / UpdateLocalAddress operations, under      *)
(* concurrent callers.                                                     *)
(*                                                                         *)
(* Every access to shared memory (the sync.Map, the fields guarded by mu,  *)
(* the unguarded reads of d.localBackend) is one atomic step; computation  *)
(* on a goroutine's own locals is folded into the step that precedes it.   *)
(*                                                                         *)
(* History kept for the properties, which no step reads: stored (the       *)
(* backend was put in the cache), usedCache and evicted (of a call),       *)
(* atCall and localsAtCall (what the Director held when FlushRemoteBackends*)
(* or Close was called).                                                   *)
(***************************************************************************)
EXTENDS Integers, Sequences, FiniteSets, TLC

VARIABLES
    localBackend,    \* Director.localBackend: id of the current LocalBackend
    localAddress,    \* Director.localAddress
    remoteBackends,  \* Director.remoteBackends: address -> RemoteBackend id, 0 = no entry
    localObjs,       \* every LocalBackend ever constructed: <<[addr, closes]>>
    remoteObjs,      \* every RemoteBackend ever constructed: <<[addr, closes, stored]>>
    call,            \* per goroutine calling Director.Director: its locals
    flush,           \* per goroutine calling FlushRemoteBackends / Close: its locals
    closeCalled,     \* Director.Close has been called
    mu               \* Director.mu: "free", or "locked" by UpdateLocalAddress

\* The state of the WireGuardNetwork of the same file (lines 128-593) and of
\* the kernel interface it drives.
VARIABLES
    link,            \* WireGuardNetwork.link: the attributes read at construction,
                     \* and whether the field is nil
    peers,           \* WireGuardNetwork.peers: nil, or public key -> peer struct
    watchers,        \* WireGuardNetwork.watchers: the channels, in order
    running,         \* WireGuardNetwork.running
    nmu,             \* WireGuardNetwork.mu: "free" or the goroutine that holds it
    kernel,          \* the interface in the kernel: addresses, flag, routes, peers
    chans,           \* every channel WatchEndpoints has made: <<[closes]>>
    run,             \* per goroutine calling Run: its locals and its context
    last             \* history: the last Configure call and what it did

dirVars == <<localBackend, localAddress, remoteBackends, localObjs, remoteObjs,
             call, flush, closeCalled, mu>>
wgVars == <<link, peers, watchers, running, nmu, kernel, chans, run, last>>
vars == <<dirVars, wgVars>>

----------------------------------------------------------------------------
(* Bounds of the model *)

MaxLen == 2
MaxRemote == 2
MaxUpdates == 1

\* Machine addresses that appear in the `machines` metadata.
Addrs == {"a1", "a2"}
\* The address of this machine, which UpdateLocalAddress installs.
LocalAddrs == {"a1"}
\* Goroutines that call Director.Director.
Callers == {"c1", "c2"}
\* Goroutines that call FlushRemoteBackends or Close.
Flushers == {"f1", "f2"}

SeqsUpTo(S, n) == UNION {[1..k -> S] : k \in 0..n}

\* Incoming contexts: no metadata at all, or metadata with or without the
\* proxy-authority key and with or without the machines key. A forwarded call
\* lists no machine or one; a call that is not forwarded lists up to MaxLen.
NoMD == [has |-> FALSE, proxyAuthority |-> FALSE, hasMachines |-> FALSE, machines |-> <<>>]
Metadata ==
    {NoMD} \cup
    {[has |-> TRUE, proxyAuthority |-> pa, hasMachines |-> FALSE, machines |-> <<>>] :
        pa \in BOOLEAN} \cup
    {[has |-> TRUE, proxyAuthority |-> TRUE, hasMachines |-> TRUE, machines |-> ms] :
        ms \in SeqsUpTo(Addrs, 1)} \cup
    {[has |-> TRUE, proxyAuthority |-> FALSE, hasMachines |-> TRUE, machines |-> ms] :
        ms \in SeqsUpTo(Addrs, MaxLen)}

\* What each goroutine calls Director with: c1 with any context, c2 with a
\* call for one machine (the call that races with c1 for a cache entry).
Inputs(p) ==
    IF p = "c1" THEN Metadata
    ELSE {md \in Metadata : md.has /\ ~md.proxyAuthority /\ md.hasMachines
                              /\ Len(md.machines) = 1}

----------------------------------------------------------------------------
(* Backends *)

Local(id) == [kind |-> "local", id |-> id]
Remote(id) == [kind |-> "remote", id |-> id]
Nil == [kind |-> "nil", id |-> 0]

\* NewLocalBackend(sockPath, addr): a fresh, open LocalBackend.
NewLocalBackend(addr) == [addr |-> addr, closes |-> 0]
\* NewRemoteBackend(addr, port): a fresh, open RemoteBackend, not in the cache.
NewRemoteBackend(addr) == [addr |-> addr, closes |-> 0, stored |-> FALSE]

\* backend.Close()
CloseObj(objs, id) == [objs EXCEPT ![id].closes = @ + 1]

----------------------------------------------------------------------------
(* Director.Director, lines 44-85 *)

IdleCall == [pc |-> "idle", md |-> NoMD, i |-> 0, localAddress |-> "",
             localBackend |-> 0, backends |-> <<>>, backend |-> 0, existing |-> 0,
             mode |-> "none", err |-> "none", evicted |-> {}, usedCache |-> FALSE,
             inForce |-> ""]

\* Mutant of TerminatesLocally: the check of the proxy-authority key is left out.
TerminatesLocallyUnforwarded(md) == ~md.has \/ ~md.hasMachines

\* Lines 45-57: the call is served by the local backend without looking at
\* the machines list.
TerminatesLocally(md) == ~md.has \/ md.proxyAuthority \/ ~md.hasMachines

\* Mutant of NoMachines: an empty list is not rejected.
NoMachinesAccepted(machines) == FALSE

\* Line 58
NoMachines(machines) == Len(machines) = 0

\* Line 69
IsLocal(addr, local) == addr = local

\* Mutant of Mode: the mode is chosen by the number of distinct backends.
ModeByDistinct(backends) ==
    IF Cardinality({backends[k] : k \in 1..Len(backends)}) = 1
    THEN "One2One" ELSE "One2Many"

\* Lines 81-84
Mode(backends) == IF Len(backends) = 1 THEN "One2One" ELSE "One2Many"

\* Mutant of SetSlot: the slice is filled from its end.
SetSlotReversed(backends, i, b) == [backends EXCEPT ![Len(backends) + 1 - i] = b]

\* Lines 70 and 78: backends[i] = b
SetSlot(backends, i, b) == [backends EXCEPT ![i] = b]

\* The for loop of lines 68-79 from index c.i on, as far as it runs on the
\* goroutine's locals alone: slots of the local address are filled (69-71);
\* it stops before the first remoteBackend call (74), or returns (81-84).
RECURSIVE Continue(_)
Continue(c) ==
    IF c.i > Len(c.md.machines)
    THEN [c EXCEPT !.pc = "returned", !.mode = Mode(c.backends), !.err = "nil", !.i = 0]
    ELSE IF IsLocal(c.md.machines[c.i], c.localAddress)
         THEN Continue([c EXCEPT !.backends = SetSlot(@, c.i, Local(c.localBackend)),
                                 !.i = @ + 1])
         ELSE [c EXCEPT !.pc = "load"]

\* Mutant of Adopted: the loser of the race returns the backend it built.
AdoptedOwn(own, existing, loaded) == own

\* Line 102 / 105: what remoteBackend returns after LoadOrStore.
Adopted(own, existing, loaded) == IF loaded THEN existing ELSE own

\* Lines 74-78 after remoteBackend returned b without error.
Filled(c, b) ==
    Continue([c EXCEPT !.backends = SetSlot(@, c.i, Remote(b)), !.i = @ + 1,
                       !.backend = 0, !.existing = 0])

\* Lines 44-67; a goroutine starts a call when it has none, or when the call it
\* routed before has completed. The three local-only returns read d.localBackend without the
\* lock; the fan-out path snapshots address and backend under the read lock,
\* which it gets only when UpdateLocalAddress does not hold the lock. inForce
\* is history: the value of d.localAddress when the call is routed.
DirectorBegin(p, md) ==
    /\ call[p].pc \in {"idle", "returned"}
    /\ (~TerminatesLocally(md) /\ ~NoMachines(md.machines)) => mu = "free"
    /\ LET c == [IdleCall EXCEPT !.md = md, !.inForce = localAddress] IN
       call' = [call EXCEPT ![p] =
          IF TerminatesLocally(md)
          THEN [c EXCEPT !.pc = "returned", !.mode = "One2One",
                         !.backends = <<Local(localBackend)>>, !.err = "nil"]
          ELSE IF NoMachines(md.machines)
          THEN [c EXCEPT !.pc = "returned", !.mode = "One2One",
                         !.err = "InvalidArgument"]
          ELSE Continue([c EXCEPT !.localAddress = localAddress,
                                  !.localBackend = localBackend,
                                  !.backends = [k \in 1..Len(md.machines) |-> Nil],
                                  !.i = 1])]
    /\ UNCHANGED <<localBackend, localAddress, remoteBackends, localObjs, remoteObjs,
                   flush, closeCalled, mu, wgVars>>

\* remoteBackend, lines 89-92: d.remoteBackends.Load(addr)
RemoteLoad(p) ==
    /\ call[p].pc = "load"
    /\ LET c == [call[p] EXCEPT !.usedCache = TRUE]
           b == remoteBackends[c.md.machines[c.i]]
       IN call' = [call EXCEPT ![p] = IF b # 0 THEN Filled(c, b)
                                              ELSE [c EXCEPT !.pc = "new"]]
    /\ UNCHANGED <<localBackend, localAddress, remoteBackends, localObjs, remoteObjs,
                   flush, closeCalled, mu, wgVars>>

\* remoteBackend, line 94: NewRemoteBackend succeeds.
RemoteNew(p) ==
    /\ call[p].pc = "new"
    /\ Len(remoteObjs) < MaxRemote
    /\ remoteObjs' = Append(remoteObjs, NewRemoteBackend(call[p].md.machines[call[p].i]))
    /\ call' = [call EXCEPT ![p].pc = "store", ![p].backend = Len(remoteObjs) + 1]
    /\ UNCHANGED <<localBackend, localAddress, remoteBackends, localObjs,
                   flush, closeCalled, mu, wgVars>>

\* remoteBackend, lines 94-97, and Director, lines 75-77: NewRemoteBackend
\* fails and the whole call returns an Internal error.
RemoteNewFails(p) ==
    /\ call[p].pc = "new"
    /\ call' = [call EXCEPT ![p].pc = "returned", ![p].mode = "One2One",
                            ![p].backends = <<>>, ![p].err = "Internal", ![p].i = 0]
    /\ UNCHANGED <<localBackend, localAddress, remoteBackends, localObjs, remoteObjs,
                   flush, closeCalled, mu, wgVars>>

\* remoteBackend, lines 98-105: d.remoteBackends.LoadOrStore(addr, backend)
RemoteLoadOrStore(p) ==
    /\ call[p].pc = "store"
    /\ LET c == [call[p] EXCEPT !.usedCache = TRUE]
           addr == c.md.machines[c.i]
           existing == remoteBackends[addr]
       IN IF existing # 0
          THEN /\ call' = [call EXCEPT ![p] = [c EXCEPT !.pc = "closeOwn",
                                                        !.existing = existing]]
               /\ UNCHANGED <<remoteBackends, remoteObjs>>
          ELSE /\ remoteBackends' = [remoteBackends EXCEPT ![addr] = c.backend]
               /\ remoteObjs' = [remoteObjs EXCEPT ![c.backend].stored = TRUE]
               /\ call' = [call EXCEPT ![p] =
                              Filled(c, Adopted(c.backend, existing, FALSE))]
    /\ UNCHANGED <<localBackend, localAddress, localObjs, flush, closeCalled, mu, wgVars>>

\* remoteBackend, lines 99-103: the loser of the race closes the backend it
\* built and returns the stored one.
RemoteCloseOwn(p) ==
    /\ call[p].pc = "closeOwn"
    /\ remoteObjs' = CloseObj(remoteObjs, call[p].backend)
    /\ call' = [call EXCEPT ![p] =
                   Filled(call[p], Adopted(call[p].backend, call[p].existing, TRUE))]
    /\ UNCHANGED <<localBackend, localAddress, remoteBackends, localObjs,
                   flush, closeCalled, mu, wgVars>>

----------------------------------------------------------------------------
(* UpdateLocalAddress, lines 32-39 *)

\* The whole of UpdateLocalAddress as one step: under d.mu the address and a
\* new LocalBackend are installed. The LocalBackend that was installed before
\* is not closed. To the goroutines that take the read lock, and to those that
\* read only d.localBackend, the update is this one step.
UpdateLocalAddress(addr) ==
    /\ mu = "free"
    /\ Len(localObjs) <= MaxUpdates
    /\ localAddress' = addr
    /\ localObjs' = Append(localObjs, NewLocalBackend(addr))
    /\ localBackend' = Len(localObjs) + 1
    /\ UNCHANGED <<remoteBackends, remoteObjs, call, flush, closeCalled, mu, wgVars>>

\* UpdateLocalAddress in the two steps a goroutine that reads d.localBackend
\* without the lock can tell apart. Lines 33-35: d.mu.Lock() and
\* d.localAddress = addr. No call holds the read lock between two steps, so
\* the lock is free unless an update holds it.
UpdateLocalAddressLock(addr) ==
    /\ mu = "free"
    /\ Len(localObjs) <= MaxUpdates
    /\ mu' = "locked"
    /\ localAddress' = addr
    /\ UNCHANGED <<localBackend, remoteBackends, localObjs, remoteObjs, call, flush,
                   closeCalled, wgVars>>

\* Lines 36-39: d.localBackend = NewLocalBackend(sockPath, addr), then the
\* deferred d.mu.Unlock(). The LocalBackend that was installed before is not
\* closed.
UpdateLocalBackend ==
    /\ mu = "locked"
    /\ localObjs' = Append(localObjs, NewLocalBackend(localAddress))
    /\ localBackend' = Len(localObjs) + 1
    /\ mu' = "free"
    /\ UNCHANGED <<localAddress, remoteBackends, remoteObjs, call, flush, closeCalled,
                   wgVars>>

----------------------------------------------------------------------------
(* FlushRemoteBackends, lines 109-120, and Close, lines 123-126 *)

IdleFlush == [pc |-> "idle", op |-> "none", snap |-> {}, visited |-> {}, cur |-> "",
              atCall |-> {}, localsAtCall |-> {}]

\* The keys and the backends the cache holds.
CachedKeys == {a \in Addrs : remoteBackends[a] # 0}
Cached == {remoteBackends[a] : a \in CachedKeys}

\* Line 110: d.remoteBackends.Range starts. Range visits every key that is in
\* the map for the whole of the call (snap, as long as it has an entry) and
\* may visit keys stored while it runs; it visits no key twice.
RangeBegin(fl) == [fl EXCEPT !.pc = "range", !.snap = CachedKeys, !.visited = {}]

\* FlushRemoteBackends is called.
FlushCall(f) ==
    /\ flush[f].pc \in {"idle", "ret"}
    /\ flush' = [flush EXCEPT ![f] =
                    RangeBegin([IdleFlush EXCEPT !.op = "Flush", !.atCall = Cached])]
    /\ UNCHANGED <<localBackend, localAddress, remoteBackends, localObjs, remoteObjs,
                   call, closeCalled, mu, wgVars>>

\* Close is called, once in the life of a Director; line 124:
\* d.localBackend.Close(), read without the lock.
CloseCall(f) ==
    /\ flush[f].pc \in {"idle", "ret"}
    /\ ~closeCalled
    /\ closeCalled' = TRUE
    /\ localObjs' = CloseObj(localObjs, localBackend)
    /\ flush' = [flush EXCEPT ![f] =
                    [IdleFlush EXCEPT !.pc = "flush", !.op = "Close", !.atCall = Cached,
                                      !.localsAtCall = 1..Len(localObjs)]]
    /\ UNCHANGED <<localBackend, localAddress, remoteBackends, remoteObjs, call, mu, wgVars>>

\* Close, line 125: d.FlushRemoteBackends()
CloseFlush(f) ==
    /\ flush[f].pc = "flush"
    /\ flush' = [flush EXCEPT ![f] = RangeBegin(flush[f])]
    /\ UNCHANGED <<localBackend, localAddress, remoteBackends, localObjs, remoteObjs,
                   call, closeCalled, mu, wgVars>>

\* Lines 110-116: Range calls the function with key k and the value the map
\* holds for k now; the function closes that backend.
RangeVisit(f, k) ==
    /\ flush[f].pc = "range"
    /\ k \notin flush[f].visited
    /\ remoteBackends[k] # 0
    /\ remoteObjs' = CloseObj(remoteObjs, remoteBackends[k])
    /\ flush' = [flush EXCEPT ![f].pc = "delete", ![f].cur = k]
    /\ UNCHANGED <<localBackend, localAddress, remoteBackends, localObjs, call,
                   closeCalled, mu, wgVars>>

\* Range passes a key whose entry has been deleted meanwhile.
RangeSkip(f, k) ==
    /\ flush[f].pc = "range"
    /\ k \in flush[f].snap \ flush[f].visited
    /\ remoteBackends[k] = 0
    /\ flush' = [flush EXCEPT ![f].visited = @ \cup {k}]
    /\ UNCHANGED <<localBackend, localAddress, remoteBackends, localObjs, remoteObjs,
                   call, closeCalled, mu, wgVars>>

\* A call of Director that has looked up k and will look it up again records
\* that the entry of k was deleted between its two lookups.
NoteEvicted(c, k) ==
    IF /\ c.pc \in {"load", "new", "store", "closeOwn"}
       /\ \E j \in 1..(c.i - 1) : c.md.machines[j] = k /\ c.backends[j].kind = "remote"
       /\ \E j \in c.i..Len(c.md.machines) : c.md.machines[j] = k
    THEN [c EXCEPT !.evicted = @ \cup {k}]
    ELSE c

\* Line 117: d.remoteBackends.Delete(key) removes whatever entry key has now.
RangeDelete(f) ==
    /\ flush[f].pc = "delete"
    /\ LET k == flush[f].cur IN
       /\ remoteBackends' = [remoteBackends EXCEPT ![k] = 0]
       /\ flush' = [flush EXCEPT ![f].pc = "range", ![f].cur = "",
                                 ![f].visited = @ \cup {k}]
       /\ call' = [p \in Callers |->
                      IF remoteBackends[k] # 0 THEN NoteEvicted(call[p], k) ELSE call[p]]
    /\ UNCHANGED <<localBackend, localAddress, localObjs, remoteObjs, closeCalled, mu, wgVars>>

\* Lines 119-120: Range has passed every key it must visit; the call returns.
RangeEnd(f) ==
    /\ flush[f].pc = "range"
    /\ flush[f].snap \subseteq flush[f].visited
    /\ flush' = [flush EXCEPT ![f].pc = "ret", ![f].snap = {}, ![f].visited = {}]
    /\ UNCHANGED <<localBackend, localAddress, remoteBackends, localObjs, remoteObjs,
                   call, closeCalled, mu, wgVars>>

----------------------------------------------------------------------------
(* WireGuardNetwork, lines 128-593: the data *)

\* Public keys of peers; "kx" is a key that wgtypes.NewKey rejects.
Keys == {"k1", "k2", "kx"}
ValidKey(k) == k # "kx"

\* Candidate endpoints a machine advertises, per public key: k1 and kx have
\* two, k2 has one.
AllEndpoints(k) ==
    IF k = "k1" THEN <<"e1", "e2">> ELSE IF k = "kx" THEN <<"e3", "e4">> ELSE <<"e3">>

\* The address space is four addresses wide; a prefix is the aligned block of
\* addresses it covers.
Blocks == {{0}, {1}, {2}, {3}, {0, 1}, {2, 3}, {0, 1, 2, 3}}

\* The routable prefixes of a peer: k1 and k2 hold the two halves of {0, 1}.
PeerPrefixes(k) == IF k = "k1" THEN {{0}} ELSE IF k = "k2" THEN {{1}} ELSE {{2}}

\* PeerConfig of a machine with public key k whose selected endpoint is e.
PeerConfig(k, e) ==
    [publicKey |-> k, endpoint |-> e, allEndpoints |-> AllEndpoints(k),
     prefixes |-> PeerPrefixes(k)]
NoPeerConfig == [publicKey |-> "", endpoint |-> "", allEndpoints |-> <<>>, prefixes |-> {}]

\* Config: the machine's subnet, its management IP and its peers.
Config(subnet, ps) == [subnet |-> subnet, managementIP |-> "m1", peers |-> ps]

\* The configs Configure is called with: one peer, the same peer with its
\* other endpoint selected, two peers in another subnet, and a peer whose
\* public key is no WireGuard key.
Configs ==
    {Config("s1", {PeerConfig("k1", "e1")}),
     Config("s1", {PeerConfig("k1", "e2")}),
     Config("s2", {PeerConfig("k1", "e1"), PeerConfig("k2", "e3")}),
     Config("s1", {PeerConfig("kx", "e3")})}

\* The configs that differ in more than the selected endpoint of a peer.
ConfigsOfOneEndpoint == Configs \ {Config("s1", {PeerConfig("k1", "e2")})}

\* Lines 211-216: the two addresses of the interface.
MachinePrefix(subnet) == <<"machine", subnet>>
SingleIPPrefix(ip) == <<"single", ip>>
InterfaceAddrs(config) == <<SingleIPPrefix(config.managementIP), MachinePrefix(config.subnet)>>

\* An address and a route that something else than this program adds.
OutOfBandAddr == <<"single", "x">>
OutOfBandRoute == {2, 3}

\* A peer of the kernel device: its endpoint and whether its last handshake
\* is recent.
\* The source addresses a peer's packets can come from, beside its selected
\* endpoint.
RoamEndpoints == {"e9"}

NoDevicePeer == [present |-> FALSE, endpoint |-> "", fresh |-> FALSE]
DevicePeer(e, fresh) == [present |-> TRUE, endpoint |-> e, fresh |-> fresh]

\* The peer struct of peer.go.
NoPeer == [present |-> FALSE, config |-> NoPeerConfig, status |-> "down", due |-> FALSE]

\* peer status from the handshake the device reports.
StatusOf(wgPeer) == IF wgPeer.present /\ wgPeer.fresh THEN "up" ELSE "down"

\* newPeer(pc, wgPeer): wgPeer is the device's peer, or nil (not present).
\* due says that ROTATE_INTERVAL has passed since the last endpoint change.
NewPeer(pc, wgPeer) ==
    [present |-> TRUE, config |-> pc, status |-> StatusOf(wgPeer), due |-> FALSE]

\* p.updateConfig(newConfig): the config is replaced; a different endpoint is
\* an endpoint change.
UpdateConfig(p, newConfig) ==
    [p EXCEPT !.config = newConfig,
              !.due = IF newConfig.endpoint # p.config.endpoint THEN FALSE ELSE @]

\* p.updateFromDevice(wgPeer): status and endpoint as the kernel reports them.
EndpointChanged(p, wgPeer) == wgPeer.endpoint # "" /\ wgPeer.endpoint # p.config.endpoint
UpdateFromDevice(p, wgPeer) ==
    IF EndpointChanged(p, wgPeer)
    THEN [p EXCEPT !.status = StatusOf(wgPeer), !.config.endpoint = wgPeer.endpoint,
                   !.due = FALSE]
    ELSE [p EXCEPT !.status = StatusOf(wgPeer)]

\* The candidate after the selected one, round-robin; the first candidate
\* when the selected endpoint is not a candidate.
NextEndpoint(all, cur) ==
    IF \E j \in 1..Len(all) : all[j] = cur
    THEN LET j == CHOOSE j \in 1..Len(all) : all[j] = cur IN all[(j % Len(all)) + 1]
    ELSE all[1]

\* p.shouldChangeEndpoint(): whether the peer wants rotation.
ShouldChangeEndpoint(p) ==
    p.status = "down" /\ p.due /\ Len(p.config.allEndpoints) >= 2

----------------------------------------------------------------------------
(* Configure, lines 202-241, with configureDevice, updateAddresses and
   updatePeerRoutes *)

HasPeer(config, k) == \E pc \in config.peers : pc.publicKey = k
PeerOf(config, k) == CHOOSE pc \in config.peers : pc.publicKey = k

\* Mutant of ConfigurePeers: the peers that are no longer in the config stay
\* in the map.
ConfigurePeersKeepsAbsent(config, ps, dev) ==
    LET base == IF ps.nil
                THEN [k \in Keys |-> IF HasPeer(config, k)
                                     THEN NewPeer(PeerOf(config, k), dev[k])
                                     ELSE NoPeer]
                ELSE ps.m
    IN [nil |-> FALSE,
        m |-> [k \in Keys |->
                 IF HasPeer(config, k)
                 THEN IF base[k].present
                      THEN UpdateConfig(base[k], PeerOf(config, k))
                      ELSE NewPeer(PeerOf(config, k), NoDevicePeer)
                 ELSE base[k]]]

\* configureDevice, lines 256-288: the peers map after the call. The first
\* time (map nil) the structs are built from the device's peers; then every
\* peer of the config is updated or created, and the others are deleted.
ConfigurePeers(config, ps, dev) ==
    LET base == IF ps.nil
                THEN [k \in Keys |-> IF HasPeer(config, k)
                                     THEN NewPeer(PeerOf(config, k), dev[k])
                                     ELSE NoPeer]
                ELSE ps.m
    IN [nil |-> FALSE,
        m |-> [k \in Keys |->
                 IF HasPeer(config, k)
                 THEN IF base[k].present
                      THEN UpdateConfig(base[k], PeerOf(config, k))
                      ELSE NewPeer(PeerOf(config, k), NoDevicePeer)
                 ELSE NoPeer]]

\* config.toDeviceConfig(dev.Peers): the device config that makes the device
\* hold the peers of the config: peers the device has are updated
\* (UpdateOnly), the others added, and peers of the device that the config
\* lacks removed; ReplacePeers is never set. It fails on a public key that is
\* no WireGuard key.
ToDeviceConfig(config, dev) ==
    [err |-> \E pc \in config.peers : ~ValidKey(pc.publicKey),
     replacePeers |-> FALSE,
     peers |->
        {[publicKey |-> pc.publicKey, endpoint |-> pc.endpoint,
          updateOnly |-> dev[pc.publicKey].present, remove |-> FALSE] :
            pc \in config.peers}
        \cup {[publicKey |-> k, endpoint |-> "", updateOnly |-> FALSE, remove |-> TRUE] :
                k \in {k \in Keys : dev[k].present /\ ~HasPeer(config, k)}}]

\* wg.ConfigureDevice(name, wgConfig): what the kernel does with a device
\* config.
ConfigureDevice(dev, wgConfig) ==
    [k \in Keys |->
        LET cur == IF wgConfig.replacePeers THEN NoDevicePeer ELSE dev[k] IN
        IF \E pc \in wgConfig.peers : pc.publicKey = k
        THEN LET pc == CHOOSE pc \in wgConfig.peers : pc.publicKey = k IN
             IF pc.remove THEN NoDevicePeer
             ELSE IF pc.updateOnly /\ ~cur.present THEN cur
             ELSE DevicePeer(IF pc.endpoint # "" THEN pc.endpoint ELSE cur.endpoint,
                             cur.present /\ cur.fresh)
        ELSE cur]

\* ipsetBuilder.IPSet().Prefixes(): the fewest prefixes that cover exactly the
\* addresses the given prefixes cover.
Compact(prefixes) ==
    LET covered == UNION prefixes IN
    {b \in Blocks : /\ b \subseteq covered
                    /\ \A b2 \in Blocks : (b \subseteq b2 /\ b2 \subseteq covered) => b2 = b}

\* Mutant of RoutePrefixes: the prefixes of the peers are routed as they are.
RoutePrefixesUncompacted(ps) ==
    UNION {ps.m[k].config.prefixes : k \in {k \in Keys : ps.m[k].present}}

\* updatePeerRoutes, lines 336-350: the prefixes to route.
RoutePrefixes(ps) ==
    Compact(UNION {ps.m[k].config.prefixes : k \in {k \in Keys : ps.m[k].present}})

\* Mutant of StaleAddrs: no address of the link compares equal to a wanted
\* one, so that all are removed.
StaleAddrsAll(linkAddrs, addrs) == linkAddrs

\* updateAddresses, lines 318-325: the addresses of the link that are to be
\* removed.
StaleAddrs(linkAddrs, addrs) == linkAddrs \ addrs

\* updatePeerRoutes, lines 379-386: the routes of the link that are to be
\* removed.
StaleRoutes(routes, addedRoutes) == routes \ addedRoutes

\* The calls that can fail in Configure, in the order of the code.
FailPoints ==
    {"none", "wgctrl.New", "Device", "ConfigureDevice", "AddrAdd", "AddrList", "AddrDel",
     "LinkSetUp", "RouteAdd", "RouteList", "RouteDel"}

\* How far a loop of Configure can have come when the call named by at fails
\* in it: the addresses or routes it has added or deleted before.
Progress(config, st, at) ==
    LET addrs == InterfaceAddrs(config)
        addrSet == {addrs[j] : j \in 1..Len(addrs)}
    IN CASE at = "AddrAdd"  -> {{}, {addrs[1]}}
         [] at = "AddrDel"  -> SUBSET StaleAddrs(st.kernel.addrs, addrSet)
         [] at = "RouteAdd" -> SUBSET (Compact(UNION {pc.prefixes : pc \in config.peers}))
         [] at = "RouteDel" -> SUBSET st.kernel.routes
         [] OTHER           -> {{}}

\* The result of a step of Configure: the kernel and the peers map after it,
\* the error it returns ("nil": none), the kernel objects it has added (not
\* found there) or removed, and whether the failure named by at can happen in
\* it.
StepResult(k, ps, err, ops, can) ==
    [kernel |-> k, peers |-> ps, err |-> err, ops |-> ops, can |-> can]

\* configureDevice(config), lines 243-300, in state st = [kernel, peers] when
\* the call named by at fails.
ConfigureDeviceStep(config, st, at) ==
    LET dev      == st.kernel.peers
        mem      == ConfigurePeers(config, st.peers, dev)
        wgConfig == ToDeviceConfig(config, dev)
        applied  == ConfigureDevice(dev, wgConfig)
        ops      == {<<"PeerAdd", k>> : k \in {k \in Keys : ~dev[k].present
                                                     /\ applied[k].present}}
                    \cup {<<"PeerRemove", k>> : k \in {k \in Keys : dev[k].present
                                                     /\ ~applied[k].present}}
    IN IF at \in {"wgctrl.New", "Device"}
       THEN StepResult(st.kernel, st.peers, at, {}, TRUE)
       ELSE IF wgConfig.err
       THEN StepResult(st.kernel, mem, "toDeviceConfig", {}, at = "none")
       ELSE IF at = "ConfigureDevice"
       THEN StepResult(st.kernel, mem, at, {}, TRUE)
       ELSE StepResult([st.kernel EXCEPT !.peers = applied], mem, "nil", ops, TRUE)

\* updateAddresses(addrs), lines 304-331, on kernel k; a failing loop has
\* added or deleted the addresses of done before.
UpdateAddressesStep(k, ps, addrs, at, done) ==
    LET addrSet == {addrs[j] : j \in 1..Len(addrs)}
        added   == [k EXCEPT !.addrs = @ \cup addrSet]
        stale   == StaleAddrs(added.addrs, addrSet)
        AddOps(as) == {<<"AddrAdd", a>> : a \in as \ k.addrs}
        DelOps(as) == {<<"AddrDel", a>> : a \in as}
    IN CASE at = "AddrAdd" ->
              StepResult([k EXCEPT !.addrs = @ \cup done], ps, at, AddOps(done), TRUE)
         [] at = "AddrList" ->
              StepResult(added, ps, at, AddOps(addrSet), TRUE)
         [] at = "AddrDel" ->
              StepResult([added EXCEPT !.addrs = @ \ done], ps, at,
                         AddOps(addrSet) \cup DelOps(done), done # stale)
         [] OTHER ->
              StepResult([added EXCEPT !.addrs = @ \ stale], ps, "nil",
                         AddOps(addrSet) \cup DelOps(stale), TRUE)

\* Mutant of LinkSetUpStep: the error of netlink.LinkSetUp is not looked at.
LinkSetUpStepUnchecked(k, ps, at) ==
    StepResult(k, ps, "nil", {}, at # "LinkSetUp" \/ ~link.up)

\* Lines 226-231: the link is set up unless the attributes read at
\* construction say that it is up.
LinkSetUpStep(k, ps, at) ==
    IF link.up THEN StepResult(k, ps, "nil", {}, at # "LinkSetUp")
    ELSE IF at = "LinkSetUp" THEN StepResult(k, ps, at, {}, TRUE)
    ELSE StepResult([k EXCEPT !.up = TRUE], ps, "nil", {}, TRUE)

\* updatePeerRoutes(), lines 335-396, on kernel k with the peers map ps.
UpdatePeerRoutesStep(k, ps, at, done) ==
    LET prefixes == RoutePrefixes(ps)
        added    == [k EXCEPT !.routes = @ \cup prefixes]
        stale    == StaleRoutes(added.routes, prefixes)
        AddOps(rs) == {<<"RouteAdd", b>> : b \in rs \ k.routes}
        DelOps(rs) == {<<"RouteDel", b>> : b \in rs}
    IN CASE at = "RouteAdd" ->
              StepResult([k EXCEPT !.routes = @ \cup done], ps, at, AddOps(done),
                         done # prefixes)
         [] at = "RouteList" ->
              StepResult(added, ps, at, AddOps(prefixes), TRUE)
         [] at = "RouteDel" ->
              StepResult([added EXCEPT !.routes = @ \ done], ps, at,
                         AddOps(prefixes) \cup DelOps(done),
                         done \subseteq stale /\ done # stale)
         [] OTHER ->
              StepResult([added EXCEPT !.routes = @ \ stale], ps, "nil",
                         AddOps(prefixes) \cup DelOps(stale), TRUE)

\* Configure(config), lines 206-240, called in state st = [kernel, peers],
\* when the call named by at fails ("none": no call fails): the steps in
\* their order, each run only when the one before it returned no error.
ConfigureResult(config, st, at, done) ==
    LET d == ConfigureDeviceStep(config, st, at)
        a == UpdateAddressesStep(d.kernel, d.peers, InterfaceAddrs(config), at, done)
        u == LinkSetUpStep(a.kernel, a.peers, at)
        r == UpdatePeerRoutesStep(u.kernel, u.peers, at, done)
        Then(x, y) == [y EXCEPT !.ops = @ \cup x.ops, !.can = @ /\ x.can]
    IN IF d.err # "nil" THEN d
       ELSE IF a.err # "nil" THEN Then(d, a)
       ELSE IF u.err # "nil" THEN Then(Then(d, a), u)
       ELSE Then(Then(Then(d, a), u), r)

\* What `last` records of the last call of Configure, as long as nothing else
\* has touched the kernel or the peers since: its config and its error, and
\* the call that failed in it ("none": no call failed); after is "ok" or
\* "failed" when the call before it had the same config and nothing came
\* between the two; ops are the objects a call after "ok" has added or
\* removed; outOfBand says that the call found the address and the route
\* added out of band.
NoConfig == [subnet |-> "", managementIP |-> "", peers |-> {}]
NoLast == [config |-> NoConfig, err |-> "none", at |-> "none", after |-> "none",
           ops |-> {}, outOfBand |-> FALSE]

\* A step that changes the kernel or a peer struct ends the time in which the
\* state is as the last Configure left it.
Touched == NoLast

\* The goroutines that call Run, and the one that calls Cleanup.
Runners == {"r1", "r2"}
Cleaner == "cleanup"

\* A panic in a goroutine ends the process.
Alive == \A r \in Runners \cup {Cleaner} : run[r].pc # "panicked"

\* Lines 206-240: what Configure(config) does to the kernel and the peers map
\* between taking n.mu and releasing it. With n.link nil the call panics at
\* line 252 before it has changed anything, which ends the process.
ConfigureBody(config, at, done) ==
    LET r == ConfigureResult(config, [kernel |-> kernel, peers |-> peers], at, done) IN
       /\ ~link.nil
       /\ r.can
       /\ kernel' = r.kernel
       /\ peers' = r.peers
       /\ LET after == IF last.config # config THEN "none"
                        ELSE IF last.err = "nil" THEN "ok" ELSE "failed"
          IN last' = [config |-> config, err |-> r.err, at |-> at, after |-> after,
                      ops |-> IF after = "ok" THEN r.ops ELSE {},
                      outOfBand |-> /\ OutOfBandAddr \in kernel.addrs
                                    /\ OutOfBandRoute \in kernel.routes]

\* Configure(config), under n.mu from its first statement to its last.
Configure(config, at, done) ==
    /\ Alive
    /\ nmu = "free"
    /\ ConfigureBody(config, at, done)
    /\ UNCHANGED <<link, watchers, running, nmu, chans, run, dirVars>>

\* Configure in the two steps a tick could come between. Lines 203-204:
\* n.mu.Lock(), with the unlock deferred.
ConfigureLock ==
    /\ Alive
    /\ nmu = "free"
    /\ nmu' = "Configure"
    /\ UNCHANGED <<link, peers, watchers, running, kernel, chans, run, last, dirVars>>

\* Lines 206-240 and the deferred n.mu.Unlock().
ConfigureApply(config, at, done) ==
    /\ Alive
    /\ nmu = "Configure"
    /\ ConfigureBody(config, at, done)
    /\ nmu' = "free"
    /\ UNCHANGED <<link, watchers, running, chans, run, dirVars>>

----------------------------------------------------------------------------
(* What happens to the interface outside this program *)

\* An address is added to the interface out of band.
AddrAddedOutOfBand ==
    /\ OutOfBandAddr \notin kernel.addrs
    /\ kernel' = [kernel EXCEPT !.addrs = @ \cup {OutOfBandAddr}]
    /\ last' = Touched
    /\ UNCHANGED <<link, peers, watchers, running, nmu, chans, run, dirVars>>

\* A route via the interface is added out of band.
RouteAddedOutOfBand ==
    /\ OutOfBandRoute \notin kernel.routes
    /\ kernel' = [kernel EXCEPT !.routes = @ \cup {OutOfBandRoute}]
    /\ last' = Touched
    /\ UNCHANGED <<link, peers, watchers, running, nmu, chans, run, dirVars>>

\* A packet of peer k arrives from another source address: the kernel takes
\* it as the endpoint of the peer.
Roam(k, e) ==
    /\ kernel.peers[k].present
    /\ kernel.peers[k].endpoint # e
    /\ kernel' = [kernel EXCEPT !.peers[k].endpoint = e]
    /\ last' = Touched
    /\ UNCHANGED <<link, peers, watchers, running, nmu, chans, run, dirVars>>

\* Peer k completes a handshake, or its last handshake gets old.
Handshake(k) ==
    /\ kernel.peers[k].present
    /\ kernel' = [kernel EXCEPT !.peers[k].fresh = ~@]
    /\ last' = Touched
    /\ UNCHANGED <<link, peers, watchers, running, nmu, chans, run, dirVars>>

\* ROTATE_INTERVAL has passed since the endpoint of peer k changed last.
Elapse(k) ==
    /\ ~peers.nil
    /\ peers.m[k].present
    /\ ~peers.m[k].due
    /\ peers' = [peers EXCEPT !.m[k].due = TRUE]
    /\ last' = Touched
    /\ UNCHANGED <<link, watchers, running, nmu, kernel, chans, run, dirVars>>

----------------------------------------------------------------------------
(* Run, lines 398-439, with WatchEndpoints, updatePeersFromDevice,
   changeWireGuardEndpoints and notifyWatchers *)

\* A call of Run: where it is (pc), the error it returned, whether its context
\* is cancelled, the phase of the tick it is in, the batch of events it
\* publishes with the number of watchers it ranges over (nw) and the watcher
\* and event it is at (w, e), and what ended its last publish before all was
\* sent (out: "timeout" or "done"); atCancel are the channels that were
\* registered when its context was cancelled.
IdleRun ==
    [pc |-> "idle", err |-> "none", cancelled |-> FALSE, phase |-> "", events |-> <<>>,
     nw |-> 0, w |-> 0, e |-> 0, out |-> "none", atCancel |-> {}]

\* The pcs of a call that is in the loop of lines 414-438.
LoopPcs == {"loop", "notify", "rotate", "stop"}

\* The most channels WatchEndpoints hands out.
MaxWatchers == 2

\* An unbuffered channel of EndpointChangeEvent and the number of times it
\* has been closed.
NewChan == [closes |-> 0]

\* The order in which device peers and map entries are visited.
KeyOrder == <<"k1", "k2", "kx">>

\* Mutant of AlreadyRunning: n.running is not looked at.
AlreadyRunningNever == FALSE

\* Line 406: the loop runs already.
AlreadyRunning == running

\* Lines 398-411: the client is created (ok) or not; under n.mu the call
\* returns an error when the loop runs, and sets running otherwise.
RunCall(r, ok) ==
    /\ Alive
    /\ run[r].pc \in {"idle", "returned"}
    /\ nmu = "free"
    /\ IF ~ok
       THEN /\ run' = [run EXCEPT ![r] = [IdleRun EXCEPT !.pc = "returned",
                                                          !.err = "wgctrl.New"]]
            /\ UNCHANGED running
       ELSE IF AlreadyRunning
       THEN /\ run' = [run EXCEPT ![r] = [IdleRun EXCEPT !.pc = "returned",
                                                          !.err = "already running"]]
            /\ UNCHANGED running
       ELSE /\ run' = [run EXCEPT ![r] = [IdleRun EXCEPT !.pc = "loop"]]
            /\ running' = TRUE
    /\ UNCHANGED <<link, peers, watchers, nmu, kernel, chans, last, dirVars>>

\* The context of the call of r is cancelled.
Cancel(r) ==
    /\ Alive
    /\ run[r].pc \in {"loop", "notify", "rotate"}
    /\ ~run[r].cancelled
    /\ run' = [run EXCEPT ![r].cancelled = TRUE,
                          ![r].atCancel = {watchers[i] : i \in 1..Len(watchers)}]
    /\ UNCHANGED <<link, peers, watchers, running, nmu, kernel, chans, last, dirVars>>

\* WatchEndpoints, lines 442-446: a new channel is appended to n.watchers.
WatchEndpoints ==
    /\ Alive
    /\ Len(chans) < MaxWatchers
    /\ chans' = Append(chans, NewChan)
    /\ watchers' = Append(watchers, Len(chans) + 1)
    /\ UNCHANGED <<link, peers, running, nmu, kernel, run, last, dirVars>>

\* Lines 463-477: the keys of the device's peers that are in the map and
\* whose endpoint in the kernel differs from the stored one.
ChangedInDevice(ps, dev) ==
    {k \in Keys : dev[k].present /\ ps.m[k].present /\ EndpointChanged(ps.m[k], dev[k])}

\* Lines 463-477: the map after updateFromDevice of every peer the device
\* and the map have.
PeersFromDevice(ps, dev) ==
    [ps EXCEPT !.m = [k \in Keys |->
        IF dev[k].present /\ ps.m[k].present THEN UpdateFromDevice(ps.m[k], dev[k])
        ELSE ps.m[k]]]

\* The events for the peers ks of the map ps, with their stored endpoints.
EventsOf(ps, ks) ==
    LET order == SelectSeq(KeyOrder, LAMBDA k : k \in ks)
    IN [j \in 1..Len(order) |-> <<order[j], ps.m[order[j]].config.endpoint>>]

\* Mutant of TickLock: the tick does not wait for n.mu.
TickLockSkipped == TRUE

\* Line 417: n.mu.Lock() returns when no goroutine holds n.mu.
TickLock == nmu = "free"

\* A call of notifyWatchers(ctx, events) by r starts in the given phase of
\* the tick; with no watcher or no event it returns at once.
StartNotify(rr, phase, events) ==
    [rr EXCEPT !.pc = "notify", !.phase = phase, !.events = events,
               !.nw = Len(watchers), !.w = 1, !.e = 1, !.out = "none"]

\* Lines 416-421 with 450-487: the ticker fires; the tick takes n.mu and
\* reads the device (ok) or fails to, refreshes the peers and publishes the
\* endpoints that changed in the kernel. With n.link nil it panics in
\* n.link.Attrs() at line 457, or at line 420 when wgctrl.New has failed.
Tick(r, ok) ==
    /\ Alive
    /\ run[r].pc = "loop"
    /\ TickLock
    /\ nmu' = r
    /\ LET ks == ChangedInDevice(peers, kernel.peers)
           ps == PeersFromDevice(peers, kernel.peers)
           rr == [run[r] EXCEPT !.out = "none"]
       IN IF link.nil
          THEN /\ run' = [run EXCEPT ![r] = [rr EXCEPT !.pc = "panicked"]]
               /\ UNCHANGED <<peers, last>>
          ELSE IF ~ok
          THEN /\ run' = [run EXCEPT ![r] = [rr EXCEPT !.pc = "rotate"]]
               /\ UNCHANGED <<peers, last>>
          ELSE /\ peers' = ps
               /\ last' = IF ps = peers THEN last ELSE Touched
               /\ run' = [run EXCEPT ![r] =
                            IF ks = {} \/ watchers = <<>>
                            THEN [rr EXCEPT !.pc = "rotate"]
                            ELSE StartNotify(rr, "device", EventsOf(ps, ks))]
    /\ UNCHANGED <<link, watchers, running, kernel, chans, dirVars>>

\* Mutant of AfterNotify: when notifyWatchers has returned the tick ends.
AfterNotifyEndsTick(rr, out) ==
    [rr EXCEPT !.pc = "loop",
               !.phase = "", !.events = <<>>, !.nw = 0, !.w = 0, !.e = 0, !.out = out]

\* notifyWatchers has returned in the call rr: after the device phase the
\* rotation follows, after the rotation phase the tick ends.
AfterNotify(rr, out) ==
    [rr EXCEPT !.pc = IF rr.phase = "device" THEN "rotate" ELSE "loop",
               !.phase = "", !.events = <<>>, !.nw = 0, !.w = 0, !.e = 0, !.out = out]

\* Line 426: n.mu after a step that takes the call of r to rr2.
MuAfter(r, rr2) == IF rr2.pc = "loop" THEN "free" ELSE r

\* Lines 559-570: one select of notifyWatchers. The watcher receives the
\* event ("sent"), or a second passes ("timeout"), or the context is done
\* ("done"); a send on a closed channel panics.
Send(r, out) ==
    /\ Alive
    /\ run[r].pc = "notify"
    /\ LET rr == run[r]
           ch == watchers[rr.w]
           rr2 == CASE out = "panic" -> [rr EXCEPT !.pc = "panicked", !.out = out]
                    [] out = "sent" /\ rr.e < Len(rr.events) -> [rr EXCEPT !.e = @ + 1]
                    [] out = "sent" /\ rr.e = Len(rr.events) /\ rr.w < rr.nw ->
                          [rr EXCEPT !.w = @ + 1, !.e = 1]
                    [] out = "sent" /\ rr.e = Len(rr.events) /\ rr.w = rr.nw ->
                          AfterNotify(rr, "none")
                    [] OTHER -> AfterNotify(rr, out)
       IN /\ CASE out = "sent"    -> chans[ch].closes = 0
               [] out = "timeout" -> chans[ch].closes = 0
               [] out = "done"    -> rr.cancelled
               [] out = "panic"   -> chans[ch].closes > 0
          /\ run' = [run EXCEPT ![r] = rr2]
          /\ nmu' = IF out = "panic" THEN nmu ELSE MuAfter(r, rr2)
    /\ UNCHANGED <<link, peers, watchers, running, kernel, chans, last, dirVars>>

\* Mutant of WantsRotation: the result ok of shouldChangeEndpoint is not
\* looked at.
WantsRotationAll(ps) == {k \in Keys : ps.m[k].present}

\* Lines 495-499: the peers for which shouldChangeEndpoint returns a new
\* endpoint.
WantsRotation(ps) == {k \in Keys : ps.m[k].present /\ ShouldChangeEndpoint(ps.m[k])}

\* Lines 500-502: the peer with the next endpoint as its selected one.
Rotated(p) ==
    UpdateConfig(p, [p.config EXCEPT
                        !.endpoint = NextEndpoint(p.config.allEndpoints, p.config.endpoint)])

\* Lines 495-502: the map after the peers ks have been rotated.
RotatePeers(ps, ks) ==
    [ps EXCEPT !.m = [k \in Keys |-> IF k \in ks THEN Rotated(ps.m[k]) ELSE ps.m[k]]]

\* Mutant of RotationPatch: the patch replaces the peers of the device.
RotationPatchReplacesPeers(ps, ks) ==
    [err |-> FALSE,
     replacePeers |-> TRUE,
     peers |-> {[publicKey |-> k, endpoint |-> ps.m[k].config.endpoint,
                 updateOnly |-> TRUE, remove |-> FALSE] : k \in ks}]

\* Lines 508-536: the patch for the rotated peers ks of the map ps.
RotationPatch(ps, ks) ==
    [err |-> FALSE,
     replacePeers |-> FALSE,
     peers |-> {[publicKey |-> k, endpoint |-> ps.m[k].config.endpoint,
                 updateOnly |-> TRUE, remove |-> FALSE] : k \in ks}]

\* Lines 422-426 with 492-555: the rotation phase. The peers that want
\* rotation are rotated in memory in the order of the map's iteration; a
\* key that does not parse ends the phase after the peers of `before' and
\* its own peer have been rotated in memory; the patch is applied to the
\* device (ok) or fails to, and the events are published when it is applied.
Rotate(r, ok, before) ==
    /\ Alive
    /\ run[r].pc = "rotate"
    /\ LET want == WantsRotation(peers)
           bad  == {k \in want : ~ValidKey(k)}
           ks   == IF bad = {} THEN want ELSE before \cup bad
           ps   == RotatePeers(peers, ks)
           rr   == [run[r] EXCEPT !.pc = "loop", !.out = "none"]
           rr2  == IF bad = {} /\ want # {} /\ ok /\ watchers # <<>>
                   THEN StartNotify(rr, "rotation", EventsOf(ps, ks))
                   ELSE rr
       IN /\ before \subseteq want \ bad
          /\ bad = {} => before = {}
          /\ (want = {} \/ bad # {}) => ok
          /\ peers' = ps
          /\ kernel' = IF bad = {} /\ want # {} /\ ok
                       THEN [kernel EXCEPT
                               !.peers = ConfigureDevice(@, RotationPatch(ps, ks))]
                       ELSE kernel
          /\ last' = IF ks = {} THEN last ELSE Touched
          /\ run' = [run EXCEPT ![r] = rr2]
          /\ nmu' = MuAfter(r, rr2)
    /\ UNCHANGED <<link, watchers, running, chans, dirVars>>

\* The channels of n.watchers that close(ch) of lines 428-430 is called on:
\* all of them, or those up to the first that is closed already, where
\* close panics.
ClosedByDone ==
    LET n == Len(watchers)
        firstClosed == {i \in 1..n : /\ chans[watchers[i]].closes > 0
                                      /\ \A j \in 1..(i - 1) : chans[watchers[j]].closes = 0}
    IN {watchers[i] : i \in {i \in 1..n : \A j \in firstClosed : i <= j}}

\* Lines 427-430: the context is done; every watcher's channel is closed.
OnDone(r) ==
    /\ Alive
    /\ run[r].pc = "loop"
    /\ run[r].cancelled
    /\ chans' = [c \in 1..Len(chans) |->
                    IF c \in ClosedByDone THEN [chans[c] EXCEPT !.closes = @ + 1]
                    ELSE chans[c]]
    /\ run' = [run EXCEPT ![r].pc = IF \E c \in ClosedByDone : chans[c].closes > 0
                                    THEN "panicked" ELSE "stop"]
    /\ UNCHANGED <<link, peers, watchers, running, nmu, kernel, last, dirVars>>

\* Lines 432-436: running is reset under n.mu and Run returns nil.
RunStop(r) ==
    /\ Alive
    /\ run[r].pc = "stop"
    /\ nmu = "free"
    /\ running' = FALSE
    /\ run' = [run EXCEPT ![r].pc = "returned", ![r].err = "nil"]
    /\ UNCHANGED <<link, peers, watchers, nmu, kernel, chans, last, dirVars>>

----------------------------------------------------------------------------

\* NewDirector.
DirectorInit ==
    /\ localObjs = <<NewLocalBackend("")>>
    /\ localBackend = 1
    /\ localAddress = ""
    /\ remoteBackends = [a \in Addrs |-> 0]
    /\ remoteObjs = <<>>
    /\ call = [p \in Callers |-> IdleCall]
    /\ flush = [f \in Flushers |-> IdleFlush]
    /\ closeCalled = FALSE
    /\ mu = "free"

\* The interface NewWireGuardNetwork finds: one it has just created, or the
\* one a daemon that ran before has left, with its addresses, routes and peers.
NewLink == [addrs |-> {}, up |-> FALSE, routes |-> {},
            peers |-> [k \in Keys |-> NoDevicePeer]]
LeftLink == [addrs |-> {SingleIPPrefix("m1"), MachinePrefix("s1")}, up |-> TRUE,
             routes |-> {{0}},
             peers |-> [k \in Keys |-> IF k = "k1" THEN DevicePeer("e2", TRUE)
                                                    ELSE NoDevicePeer]]

\* NewWireGuardNetwork, lines 163-169: the link is fetched once; peers is nil,
\* there are no watchers and the loop does not run.
NetworkInit ==
    /\ kernel \in {NewLink, LeftLink}
    /\ link = [up |-> kernel.up, nil |-> FALSE]
    /\ peers = [nil |-> TRUE, m |-> [k \in Keys |-> NoPeer]]
    /\ watchers = <<>>
    /\ running = FALSE
    /\ nmu = "free"
    /\ chans = <<>>
    /\ run = [r \in Runners \cup {Cleaner} |-> IdleRun]
    /\ last = NoLast

Init == DirectorInit /\ NetworkInit

\* Before NewWireGuardNetwork is called there is no network.
NoNetwork ==
    /\ link = "none"
    /\ peers = "none"
    /\ watchers = "none"
    /\ running = "none"
    /\ nmu = "none"
    /\ kernel = "none"
    /\ chans = "none"
    /\ run = "none"
    /\ last = "none"

\* A Director in a process that has not constructed its network; the
\* specifications of the Director, which never touches the network, start
\* here.
InitNoNetwork == DirectorInit /\ NoNetwork

\* The steps of the goroutines ps that call Director.Director.
CallerNext(ps) ==
    \/ \E p \in ps : \E md \in Inputs(p) : DirectorBegin(p, md)
    \/ \E p \in ps : RemoteLoad(p)
    \/ \E p \in ps : RemoteNew(p)
    \/ \E p \in ps : RemoteNewFails(p)
    \/ \E p \in ps : RemoteLoadOrStore(p)

\* The steps of the goroutines fs that call FlushRemoteBackends or Close.
FlusherNext(fs) ==
    \/ \E f \in fs : FlushCall(f)
    \/ \E f \in fs : CloseCall(f)
    \/ \E f \in fs : CloseFlush(f)
    \/ \E f \in fs, k \in Addrs : RangeVisit(f, k)
    \/ \E f \in fs : RangeDelete(f)
    \/ \E f \in fs : RangeEnd(f)

\* One goroutine calling Director with any context, one goroutine flushing
\* or closing, and updates of the local address. With one caller LoadOrStore
\* finds no entry, and with one flusher no entry disappears under a Range.
Next ==
    \/ CallerNext({"c1"})
    \/ FlusherNext({"f1"})
    \/ \E addr \in LocalAddrs : UpdateLocalAddress(addr)

Spec == InitNoNetwork /\ [][Next]_vars

\* Two goroutines calling Director concurrently, and updates of the local
\* address in their two steps; nothing flushes the cache.
NextRace ==
    \/ CallerNext(Callers)
    \/ \E p \in Callers : RemoteCloseOwn(p)
    \/ \E addr \in LocalAddrs : UpdateLocalAddressLock(addr)
    \/ UpdateLocalBackend

SpecRace == InitNoNetwork /\ [][NextRace]_vars

\* One goroutine calling Director for one machine at a time, and two
\* goroutines flushing or closing concurrently.
NextFlush ==
    \/ CallerNext({"c2"})
    \/ FlusherNext(Flushers)
    \/ \E f \in Flushers, k \in Addrs : RangeSkip(f, k)

SpecFlush == InitNoNetwork /\ [][NextFlush]_vars

\* Configure is called with any config and fails at any call, while
\* addresses and routes are added to the interface out of band.
NextConfigure ==
    \/ \E config \in ConfigsOfOneEndpoint, at \in FailPoints :
          \E done \in Progress(config, [kernel |-> kernel, peers |-> peers], at) :
              Configure(config, at, done)
    \/ AddrAddedOutOfBand
    \/ RouteAddedOutOfBand

SpecConfigure == Init /\ [][NextConfigure]_vars

\* The ticks of the goroutines rs that call Run.
TickNext(rs) ==
    \/ \E r \in rs, ok \in BOOLEAN : Tick(r, ok)
    \/ \E r \in rs, out \in {"sent", "timeout", "done", "panic"} : Send(r, out)
    \/ \E r \in rs, ok \in BOOLEAN, before \in SUBSET Keys : Rotate(r, ok, before)

\* The end of the calls of Run of the goroutines rs.
StopNext(rs) ==
    \/ \E r \in rs : Cancel(r)
    \/ \E r \in rs : OnDone(r)
    \/ \E r \in rs : RunStop(r)

\* The configs of the control loop's specifications: one peer with two
\* candidate endpoints, selected one or the other, and two peers.
ConfigsOfLoop == Configs \ {Config("s1", {PeerConfig("kx", "e3")})}

\* One goroutine runs the control loop and its context is not cancelled,
\* while Configure is called without failures, watchers register, peers roam
\* and shake hands or do not, and time passes.
NextLoop ==
    \/ \E ok \in BOOLEAN : RunCall("r1", ok)
    \/ TickNext({"r1"})
    \/ WatchEndpoints
    \/ \E config \in ConfigsOfLoop : Configure(config, "none", {})
    \/ \E k \in Keys, e \in RoamEndpoints : Roam(k, e)
    \/ \E k \in Keys : Handshake(k)
    \/ \E k \in Keys : Elapse(k)

SpecLoop == Init /\ [][NextLoop]_vars

\* Two goroutines call Run, again after it has returned, and their contexts
\* are cancelled, while watchers register, Configure is called with one
\* config and the peer roams.
NextRun ==
    \/ \E r \in Runners, ok \in BOOLEAN : RunCall(r, ok)
    \/ TickNext(Runners)
    \/ StopNext(Runners)
    \/ WatchEndpoints
    \/ Configure(Config("s1", {PeerConfig("k1", "e1")}), "none", {})
    \/ \E e \in RoamEndpoints : Roam("k1", e)

SpecRun == Init /\ [][NextRun]_vars

\* Mutant of StillRunning: Cleanup does not look at n.running.
StillRunningNever == FALSE

\* Line 579: the control loop runs.
StillRunning == running

\* Cleanup, lines 575-592, under n.mu: an error when the loop runs; else the
\* link is deleted in the kernel (ok) and n.link set to nil, or LinkDel
\* fails and nothing changes. With n.link nil already the call panics at
\* line 584.
Cleanup(ok) ==
    /\ Alive
    /\ nmu = "free"
    /\ LET Returned(err) == [IdleRun EXCEPT !.pc = "returned", !.err = err] IN
       IF StillRunning
       THEN /\ run' = [run EXCEPT ![Cleaner] = Returned("still running")]
            /\ UNCHANGED <<link, kernel, last>>
       ELSE IF link.nil
       THEN /\ run' = [run EXCEPT ![Cleaner] = [IdleRun EXCEPT !.pc = "panicked"]]
            /\ UNCHANGED <<link, kernel, last>>
       ELSE IF ~ok
       THEN /\ run' = [run EXCEPT ![Cleaner] = Returned("LinkDel")]
            /\ UNCHANGED <<link, kernel, last>>
       ELSE /\ run' = [run EXCEPT ![Cleaner] = Returned("nil")]
            /\ link' = [link EXCEPT !.nil = TRUE]
            /\ kernel' = NewLink
            /\ last' = Touched
    /\ UNCHANGED <<peers, watchers, running, nmu, chans, dirVars>>

\* The same, with calls of Cleanup at any time.
NextCleanup ==
    \/ NextRun
    \/ \E ok \in BOOLEAN : Cleanup(ok)

SpecCleanup == Init /\ [][NextCleanup]_vars

\* One goroutine runs the control loop while another calls Configure, which
\* takes n.mu in one step and applies the config and releases n.mu in
\* another; a watcher registers, the peer roams and shakes hands or does not,
\* and time passes.
NextLock ==
    \/ \E ok \in BOOLEAN : RunCall("r1", ok)
    \/ TickNext({"r1"})
    \/ WatchEndpoints
    \/ ConfigureLock
    \/ \E e \in {"e1", "e2"} :
          ConfigureApply(Config("s1", {PeerConfig("k1", e)}), "none", {})
    \/ \E e \in RoamEndpoints : Roam("k1", e)
    \/ Handshake("k1")
    \/ Elapse("k1")

SpecLock == Init /\ [][NextLock]_vars

\* The configs of the rotation runs: one peer, two peers of which one has a
\* single candidate, and two peers of which one has a public key that is no
\* WireGuard key.
ConfigsOfRotate ==
    {Config("s1", {PeerConfig("k1", "e1")}),
     Config("s2", {PeerConfig("k1", "e1"), PeerConfig("k2", "e3")}),
     Config("s2", {PeerConfig("k1", "e1"), PeerConfig("kx", "e3")})}

\* The calls of configureDevice that fail in the rotation runs.
FailPointsOfRotate == {"none", "Device", "ConfigureDevice"}

\* One goroutine runs the control loop and does not stop; Configure is called
\* with peers that rotate, that do not, and that have no WireGuard key, and
\* its device read or its device apply fails or none does; a watcher
\* registers, handshakes happen or get old, and time passes.
NextRotate ==
    \/ \E ok \in BOOLEAN : RunCall("r1", ok)
    \/ TickNext({"r1"})
    \/ WatchEndpoints
    \/ \E config \in ConfigsOfRotate : \E at \in FailPointsOfRotate :
          Configure(config, at, {})
    \/ \E k \in Keys : Handshake(k)
    \/ \E k \in Keys : Elapse(k)

SpecRotate == Init /\ [][NextRotate]_vars

----------------------------------------------------------------------------
(* Properties *)

\* The call of goroutine p has returned from Director.
Returned(p) == call[p].pc = "returned"

\* The call of p lists machines and is not forwarded: it takes lines 58-85.
Listed(p) ==
    call[p].md.has /\ ~call[p].md.proxyAuthority /\ call[p].md.hasMachines

\* The number of addresses the call of p lists.
N(p) == Len(call[p].md.machines)

\* C1: a call without incoming metadata, or with the proxy-authority key, or
\* without the machines key is routed One2One to one Local backend with no
\* error, whatever its machines list is, and has neither looked up nor created
\* a remote backend; checked on every step that returns such a call or
\* changes what it has returned.
C1_LocalOnly ==
    [][\A p \in Callers :
        (/\ call'[p] # call[p]
         /\ call'[p].pc = "returned"
         /\ (~call'[p].md.has \/ call'[p].md.proxyAuthority \/ ~call'[p].md.hasMachines))
        => /\ call'[p].mode = "One2One"
           /\ call'[p].err = "nil"
           /\ Len(call'[p].backends) = 1
           /\ call'[p].backends[1].kind = "local"
           /\ call'[p].backends[1].id \in 1..Len(localObjs')
           /\ ~call'[p].usedCache
           /\ call'[p].backend = 0]_vars

\* C1 witness: a forwarded call that lists a remote address has returned the
\* Local backend.
C1_Witness ==
    \E p \in Callers :
        /\ Returned(p)
        /\ call[p].md.proxyAuthority
        /\ call[p].md.machines = <<"a2">>
        /\ call[p].backends = <<Local(localBackend)>>

\* C2 as claimed: a successful call that lists N >= 1 addresses returns N
\* backends in the order of the addresses; slot i is the Local backend exactly
\* when machines[i] is the local address the call read, and otherwise a remote
\* backend built for machines[i] that the cache held; equal addresses get the
\* same backend.
C2_SliceAsClaimed ==
    \A p \in Callers :
        (Returned(p) /\ Listed(p) /\ N(p) >= 1 /\ call[p].err = "nil")
        => /\ Len(call[p].backends) = N(p)
           /\ \A i \in 1..N(p) :
                LET addr == call[p].md.machines[i]
                    b == call[p].backends[i]
                IN /\ (addr = call[p].localAddress) <=> (b = Local(call[p].localBackend))
                   /\ addr # call[p].localAddress
                        => /\ b.kind = "remote"
                           /\ b.id \in 1..Len(remoteObjs)
                           /\ remoteObjs[b.id].addr = addr
                           /\ remoteObjs[b.id].stored
           /\ \A i, j \in 1..N(p) :
                call[p].md.machines[i] = call[p].md.machines[j]
                => call[p].backends[i] = call[p].backends[j]

\* C2 amended: as C2, but equal addresses get the same backend unless the
\* cache entry of that address was deleted by FlushRemoteBackends or Close
\* between two lookups of it by the call.
C2_Slice ==
    \A p \in Callers :
        (Returned(p) /\ Listed(p) /\ N(p) >= 1 /\ call[p].err = "nil")
        => /\ Len(call[p].backends) = N(p)
           /\ \A i \in 1..N(p) :
                LET addr == call[p].md.machines[i]
                    b == call[p].backends[i]
                IN /\ (addr = call[p].localAddress) <=> (b = Local(call[p].localBackend))
                   /\ addr # call[p].localAddress
                        => /\ b.kind = "remote"
                           /\ b.id \in 1..Len(remoteObjs)
                           /\ remoteObjs[b.id].addr = addr
                           /\ remoteObjs[b.id].stored
           /\ \A i, j \in 1..N(p) :
                (/\ call[p].md.machines[i] = call[p].md.machines[j]
                 /\ call[p].md.machines[i] \notin call[p].evicted)
                => call[p].backends[i] = call[p].backends[j]

\* C2 witness: a call for a remote and the local address has returned a
\* remote backend first and the Local backend second.
C2_Witness ==
    \E p \in Callers :
        /\ Returned(p) /\ Listed(p) /\ call[p].err = "nil"
        /\ call[p].md.machines = <<"a2", "a1">>
        /\ call[p].localAddress = "a1"
        /\ call[p].backends[1].kind = "remote"
        /\ call[p].backends[2] = Local(call[p].localBackend)

\* C3 as claimed: a fan-out call that lists N >= 2 addresses returns N slots,
\* one per address, also when a remote backend could not be obtained.
C3_FanOutNeverAborts ==
    \A p \in Callers :
        (Returned(p) /\ Listed(p) /\ N(p) >= 2)
        => Len(call[p].backends) = N(p)

\* C4: a call whose machines key is present with an empty list, and that is
\* not forwarded, returns InvalidArgument and no backends, and the step
\* changes neither the cache nor the local address nor any backend.
C4_EmptyMachines ==
    [][\A p \in Callers :
        (/\ call'[p] # call[p]
         /\ call'[p].pc = "returned"
         /\ call'[p].md.has /\ ~call'[p].md.proxyAuthority /\ call'[p].md.hasMachines
         /\ call'[p].md.machines = <<>>)
        => /\ call'[p].err = "InvalidArgument"
           /\ call'[p].backends = <<>>
           /\ UNCHANGED <<remoteBackends, localAddress, localBackend,
                          localObjs, remoteObjs>>]_vars

\* C4 witness: a call with an empty machines list has returned InvalidArgument
\* while the cache holds a backend.
C4_Witness ==
    \E p \in Callers :
        /\ Returned(p) /\ Listed(p) /\ N(p) = 0
        /\ call[p].err = "InvalidArgument"
        /\ \E a \in Addrs : remoteBackends[a] # 0

\* C5: a successful call that lists N addresses is One2One with its one
\* backend when N = 1 and One2Many with N backends when N > 1, whatever the
\* backends are; checked on every step that returns such a call or changes
\* what it has returned.
C5_ModeByCount ==
    [][\A p \in Callers :
        (/\ call'[p] # call[p]
         /\ Returned(p)' /\ Listed(p)' /\ N(p)' >= 1 /\ call'[p].err = "nil")
        => /\ N(p)' = 1 => (call'[p].mode = "One2One" /\ Len(call'[p].backends) = 1)
           /\ N(p)' > 1 => (call'[p].mode = "One2Many"
                                /\ Len(call'[p].backends) = N(p)')]_vars

\* C5 witness: a call that lists the local address twice is One2Many with the
\* Local backend in both slots.
C5_Witness ==
    \E p \in Callers :
        /\ Returned(p) /\ Listed(p)
        /\ call[p].md.machines = <<"a1", "a1">>
        /\ call[p].mode = "One2Many"
        /\ call[p].backends = <<Local(call[p].localBackend), Local(call[p].localBackend)>>

\* The remote backends some slot of some call holds.
InSlots ==
    {id \in 1..Len(remoteObjs) :
        \E p \in Callers : \E i \in 1..Len(call[p].backends) :
            call[p].backends[i] = Remote(id)}

\* C6: as long as nothing flushes the cache, every remote backend a call holds
\* in a slot is the one the cache stores for that address, the stored backend
\* is open, and every other backend built is in no slot, was never stored and
\* has been closed once, unless its creator is still between building and
\* closing it.
C6_RaceOneBackend ==
    (\A f \in Flushers : flush[f].pc = "idle")
    => /\ \A p \in Callers : \A i \in 1..Len(call[p].backends) :
            call[p].backends[i].kind = "remote"
            => remoteBackends[call[p].md.machines[i]] = call[p].backends[i].id
       /\ \A id \in 1..Len(remoteObjs) :
            IF remoteBackends[remoteObjs[id].addr] = id
            THEN remoteObjs[id].closes = 0 /\ remoteObjs[id].stored
            ELSE /\ id \notin InSlots
                 /\ ~remoteObjs[id].stored
                 /\ \/ remoteObjs[id].closes = 1
                    \/ /\ remoteObjs[id].closes = 0
                       /\ \E p \in Callers : /\ call[p].backend = id
                                              /\ call[p].pc \in {"store", "closeOwn"}

\* C6 witness: two calls for the same address have returned the same stored
\* backend, and the backend the loser built is closed.
C6_Witness ==
    /\ \A p \in Callers :
          /\ Returned(p) /\ call[p].err = "nil"
          /\ call[p].md.machines = <<"a2">>
          /\ call[p].backends = <<Remote(remoteBackends["a2"])>>
    /\ \E id \in 1..Len(remoteObjs) :
          /\ remoteObjs[id].addr = "a2"
          /\ remoteBackends["a2"] # id
          /\ remoteObjs[id].closes = 1

\* C7 as claimed: a remote backend that has been closed is not in the cache
\* and is in no slot of a call that Director has routed.
C7_ClosedNotCachedNotInFlight ==
    \A id \in 1..Len(remoteObjs) :
        remoteObjs[id].closes > 0
        => /\ id \notin Cached
           /\ \A p \in Callers : \A i \in 1..Len(call[p].backends) :
                Returned(p) => call[p].backends[i] # Remote(id)

\* C8 as claimed: no remote backend that was stored in the cache is closed more
\* than once, and when Close has returned every backend the cache held when
\* Close was called has been closed.
C8_ClosedExactlyOnce ==
    /\ \A id \in 1..Len(remoteObjs) :
          remoteObjs[id].stored => remoteObjs[id].closes <= 1
    /\ \A f \in Flushers :
          (flush[f].pc = "ret" /\ flush[f].op = "Close")
          => \A id \in flush[f].atCall : remoteObjs[id].closes >= 1

\* C9 as claimed: when Close has returned, every Local backend the Director
\* held until Close was called and every remote backend the cache held then
\* has been closed.
C9_CloseLeavesNothingOpen ==
    \A f \in Flushers :
        (flush[f].pc = "ret" /\ flush[f].op = "Close")
        => /\ \A l \in flush[f].localsAtCall : localObjs[l].closes >= 1
           /\ \A id \in flush[f].atCall : remoteObjs[id].closes >= 1

\* C10 as claimed: when FlushRemoteBackends has returned, every remote backend
\* the cache held when it was called has been closed and is no longer in the
\* cache.
C10_FlushClosesAndEvicts ==
    \A f \in Flushers :
        flush[f].pc = "ret"
        => \A id \in flush[f].atCall :
              remoteObjs[id].closes >= 1 /\ id \notin Cached

\* C11 as claimed: in every call that Director has routed, a Local backend in
\* a slot is the one that was installed together with the local address in
\* force when the call was routed, on the local-only paths too.
C11_UpdateAtomic ==
    \A p \in Callers : \A i \in 1..Len(call[p].backends) :
        (Returned(p) /\ call[p].backends[i].kind = "local")
        => localObjs[call[p].backends[i].id].addr = call[p].inForce

----------------------------------------------------------------------------
(* Properties of Configure *)

ConfigKeys(config) == {pc.publicKey : pc \in config.peers}
ConfigAddrs(config) ==
    {SingleIPPrefix(config.managementIP), MachinePrefix(config.subnet)}

\* C18: after a Configure that returned no error, whatever the interface held
\* before, its addresses are exactly the management IP as a single-address
\* prefix and the machine's prefix-address; its routes cover exactly the
\* addresses of the prefixes of the config's peers with as few prefixes as
\* any set of prefixes that does; and the device's peers and the peers map
\* hold exactly the public keys of the config.
C18_ConfigureExact ==
    last.err = "nil"
    => /\ kernel.addrs = ConfigAddrs(last.config)
       /\ LET covered == UNION UNION {pc.prefixes : pc \in last.config.peers} IN
          /\ kernel.routes \subseteq Blocks
          /\ UNION kernel.routes = covered
          /\ \A R \in SUBSET Blocks :
                UNION R = covered => Cardinality(kernel.routes) <= Cardinality(R)
       /\ {k \in Keys : kernel.peers[k].present} = ConfigKeys(last.config)
       /\ ~peers.nil
       /\ {k \in Keys : peers.m[k].present} = ConfigKeys(last.config)

\* C18 witness: Configure with two peers has returned no error on an
\* interface that held an address and a route added out of band, and the two
\* prefixes of the peers are routed as one.
C18_Witness ==
    /\ last.err = "nil"
    /\ last.outOfBand
    /\ ConfigKeys(last.config) = {"k1", "k2"}
    /\ kernel.routes = {{0, 1}}
    /\ OutOfBandAddr \notin kernel.addrs

\* C19: a Configure in which no call fails, right after a Configure with the
\* same config in which no call failed, returns what the first returned,
\* changes neither the kernel's interface nor the peers map, and adds and
\* removes no peer, address or route.
C19_Idempotent ==
    [][(last'.after # "none" /\ last'.at = "none" /\ last.at = "none")
       => /\ last'.err = last.err
          /\ kernel' = kernel
          /\ peers' = peers
          /\ last'.ops = {}]_vars

\* C19 witness: Configure with two peers has returned no error twice in a
\* row.
C19_Witness ==
    /\ last.after = "ok"
    /\ last.err = "nil"
    /\ ConfigKeys(last.config) = {"k1", "k2"}
    /\ kernel.addrs = ConfigAddrs(last.config)

DeviceCalls == {"wgctrl.New", "Device", "ConfigureDevice"}
AddrCalls == {"AddrAdd", "AddrList", "AddrDel"}
RouteCalls == {"RouteAdd", "RouteList", "RouteDel"}

\* Whatever call of Configure(config) fails in the present state, a Configure
\* with the same config that follows it and returns no error leaves the
\* kernel and the peers map as a Configure without the failure does.
Reconciles ==
    LET st == [kernel |-> kernel, peers |-> peers] IN
    \A config \in ConfigsOfOneEndpoint, at \in FailPoints \ {"none"} :
        \A done \in Progress(config, st, at) :
            LET f == ConfigureResult(config, st, at, done)
                g == ConfigureResult(config, [kernel |-> f.kernel, peers |-> f.peers],
                                     "none", {})
                d == ConfigureResult(config, st, "none", {})
            IN (f.can /\ f.err # "nil")
               => (g.err = d.err /\ g.kernel = d.kernel /\ g.peers = d.peers)

\* C20: a Configure in which a call fails returns an error; the steps after
\* the failing one are not performed (a failure in the device step leaves the
\* kernel as it was, one in the address step leaves flag and routes, one in
\* link-up leaves the routes); what the steps before it did stays (the device
\* holds the peers of the config, the addresses are those of the config, the
\* link is up); and a Configure with the same config that succeeds later
\* reaches the state it reaches without the failure.
C20_FailureAborts ==
    /\ []Reconciles
    /\ [][(last'.at # "none" \/ last'.err \notin {"none", "nil"})
          => LET applied == {k \in Keys : kernel'.peers[k].present}
                                = ConfigKeys(last'.config)
             IN /\ last'.err # "nil"
                /\ (last'.at \in DeviceCalls \/ last'.err = "toDeviceConfig")
                     => kernel' = kernel
                /\ last'.at \in AddrCalls
                     => /\ applied
                        /\ kernel'.up = kernel.up
                        /\ kernel'.routes = kernel.routes
                /\ last'.at = "LinkSetUp"
                     => /\ applied
                        /\ kernel'.addrs = ConfigAddrs(last'.config)
                        /\ kernel'.up = kernel.up
                        /\ kernel'.routes = kernel.routes
                /\ last'.at \in RouteCalls
                     => /\ applied
                        /\ kernel'.addrs = ConfigAddrs(last'.config)
                        /\ kernel'.up]_vars

\* C20 witness: Configure has returned no error right after a Configure with
\* the same config in which a call failed.
C20_Witness ==
    /\ last.after = "failed"
    /\ last.err = "nil"
    /\ ConfigKeys(last.config) = {"k1", "k2"}

----------------------------------------------------------------------------
(* Properties of the control loop *)

\* C15: a send that blocks ends by the timeout; the rest of the batch is
\* dropped and nothing more of it is sent; after a publish of the device
\* phase that timed out the rotation phase follows under the lock, after one
\* of the rotation phase the tick ends and the lock is free; the rotation
\* phase also follows a device read that failed; and outside a tick the call
\* does not hold the lock, so that the next tick can take it.
C15_TimeoutNoStall ==
    /\ [](\A r \in Runners :
            /\ run[r].pc = "loop" => nmu # r
            /\ run[r].pc \in {"notify", "rotate"} => nmu = r)
    /\ [][\A r \in Runners :
            /\ (run[r].pc = "notify" /\ run'[r].out = "timeout")
                 => /\ run'[r].events = <<>>
                    /\ chans' = chans
                    /\ run[r].phase = "device"
                         => (run'[r].pc = "rotate" /\ nmu' = r)
                    /\ run[r].phase = "rotation"
                         => (run'[r].pc = "loop" /\ nmu' = "free")
            /\ (run[r].pc = "loop" /\ run'[r].pc # "loop" /\ ~run[r].cancelled)
                 => run'[r].pc \in {"notify", "rotate"}]_vars

\* C15 witness: with two watchers, the publish of the device phase has timed
\* out at the first watcher and the rotation phase is next.
C15_Witness ==
    \E r \in Runners :
        /\ run[r].pc = "rotate"
        /\ run[r].out = "timeout"
        /\ Len(watchers) = 2
        /\ nmu = r

\* C16 as claimed: whenever the selected endpoint of a peer changes while
\* watchers are registered, an event with its public key and its new endpoint
\* is in the batch the control loop publishes.
C16_EveryChangeEmits ==
    [][\A k \in Keys :
        (/\ watchers # <<>>
         /\ peers.m[k].present /\ peers'.m[k].present
         /\ peers'.m[k].config.endpoint # peers.m[k].config.endpoint)
        => \E r \in Runners : \E j \in 1..Len(run'[r].events) :
              run'[r].events[j] = <<k, peers'.m[k].config.endpoint>>]_vars

C12_OneLoop ==
    /\ [](/\ Cardinality({r \in Runners : run[r].pc \in LoopPcs}) <= 1
          /\ (\E r \in Runners : run[r].pc \in LoopPcs) => running
          /\ \A r \in Runners :
                (run[r].pc = "returned" /\ run[r].err = "nil") => run[r].cancelled)
    /\ [][\A r \in Runners :
            (run[r].pc \in {"idle", "returned"} /\ run'[r] # run[r]
                                                /\ run'[r].err # "wgctrl.New")
            => IF running
               THEN /\ run'[r].pc = "returned"
                    /\ run'[r].err = "already running"
                    /\ UNCHANGED <<running, peers, kernel, chans, watchers, nmu>>
               ELSE /\ run'[r].pc = "loop"
                    /\ running']_vars

\* C12 witness: one call of Run has returned 'already running' while the
\* other is in a tick, and the running flag is set.
C12_Witness ==
    \E r, r2 \in Runners :
        /\ run[r].pc = "returned"
        /\ run[r].err = "already running"
        /\ run[r2].pc = "notify"
        /\ running

\* C13 as claimed: while the peers map is nil, no call of Run is in the
\* control loop.
C13_RunNeedsConfigure ==
    peers.nil => \A r \in Runners : run[r].pc \notin LoopPcs \cup {"panicked"}

\* C14 as claimed: a call of Run whose context is cancelled does not end in a
\* panic, which would keep it from ever returning, and when it returns every
\* channel that was registered when the context was cancelled has been
\* closed and running is false.
C14_CancelStops ==
    /\ [](\A r \in Runners : run[r].cancelled => run[r].pc # "panicked")
    /\ [][\A r \in Runners :
            (run[r].pc = "stop" /\ run'[r].pc = "returned")
            => /\ ~running'
               /\ \A c \in run[r].atCancel : chans'[c].closes >= 1]_vars

\* The peer structs without the time that has passed since their endpoints
\* changed.
Structs == [peers EXCEPT !.m = [k \in Keys |-> [peers.m[k] EXCEPT !.due = FALSE]]]

\* A tick of r is between line 417 and line 426.
InTick(r) == run[r].pc \in {"notify", "rotate"}

\* C21: a tick holds n.mu from before it reads the device until its rotation
\* and publish phases are over, and Configure holds it while it applies: a
\* tick starts only when n.mu is free, every later step of it is taken with
\* n.mu held by its goroutine, no tick is in progress while Configure holds
\* n.mu, and a step that changes a peer struct is a step of a tick that holds
\* n.mu or the apply of a Configure that holds it.
C21_TickConfigureExclusive ==
    /\ [](\A r \in Runners :
            /\ InTick(r) => nmu = r
            /\ nmu = "Configure" => ~InTick(r))
    /\ [][/\ \A r \in Runners :
               (run'[r] # run[r] /\ (InTick(r) \/ InTick(r)'))
               => IF InTick(r) THEN nmu = r ELSE nmu = "free" /\ nmu' = r
          /\ Structs' # Structs
               => \/ \E r \in Runners :
                       /\ run'[r] # run[r]
                       /\ nmu = r \/ (nmu = "free" /\ nmu' = r)
                  \/ /\ run' = run
                     /\ nmu = "Configure"
                     /\ nmu' = "free"]_vars

\* C21 witness: Configure holds n.mu while the next tick of the running loop
\* is due and the kernel has an endpoint for the peer that the map has not.
C21_Witness ==
    /\ nmu = "Configure"
    /\ run["r1"].pc = "loop"
    /\ ~peers.nil
    /\ peers.m["k1"].present
    /\ kernel.peers["k1"].endpoint = "e9"
    /\ peers.m["k1"].config.endpoint # "e9"

\* The peers of the map for which shouldChangeEndpoint returns a new
\* endpoint.
WantRotation == {k \in Keys : peers.m[k].present /\ ShouldChangeEndpoint(peers.m[k])}

\* The patch with the new endpoint of each of these peers, UpdateOnly set
\* and ReplacePeers not set.
PatchOfWanted ==
    [err |-> FALSE,
     replacePeers |-> FALSE,
     peers |-> {[publicKey |-> k,
                 endpoint |-> NextEndpoint(peers.m[k].config.allEndpoints,
                                           peers.m[k].config.endpoint),
                 updateOnly |-> TRUE, remove |-> FALSE] : k \in WantRotation}]

\* C22: what the rotation phase writes to the device is the patch of exactly
\* the peers that want rotation, with UpdateOnly and without ReplacePeers
\* (the device after the phase is the device with that patch applied, or the
\* device as it was when the phase returned an error before or in the
\* write); events are published only when it has been written; a peer that
\* does not want rotation is the same after the phase in the map and in the
\* device; and when no peer wants rotation the device is the same and no
\* event is published.
C22_RotationPatch ==
    [][\A r \in Runners :
        (run[r].pc = "rotate" /\ run'[r].pc # "rotate")
        => /\ kernel'.peers \in {kernel.peers, ConfigureDevice(kernel.peers, PatchOfWanted)}
           /\ kernel' = [kernel EXCEPT !.peers = kernel'.peers]
           /\ run'[r].pc = "notify"
                => /\ kernel'.peers = ConfigureDevice(kernel.peers, PatchOfWanted)
                   /\ run'[r].events = EventsOf(peers', WantRotation)
           /\ \A k \in Keys \ WantRotation :
                 /\ peers'.m[k] = peers.m[k]
                 /\ kernel'.peers[k] = kernel.peers[k]
           /\ WantRotation = {}
                => /\ kernel' = kernel
                   /\ peers' = peers
                   /\ run'[r].pc = "loop"
                   /\ run'[r].events = <<>>]_vars

\* C22 witness: the rotation phase has rotated k1 and not k2, which has one
\* candidate; the device lacks both since its apply failed in Configure, the
\* patch has added neither, and the event of k1 is published.
C22_Witness ==
    \E r \in Runners :
        /\ run[r].phase = "rotation"
        /\ run[r].events = << <<"k1", "e2">> >>
        /\ ~kernel.peers["k1"].present
        /\ peers.m["k2"].present
        /\ peers.m["k2"].due

\* A call of Run is in the control loop: it has set n.running at line 410
\* and not yet returned.
RunActive == \E r \in Runners : run[r].pc \in LoopPcs

\* C23: n.link becomes nil and the link leaves the kernel only in a step
\* taken while no call of Run is in the control loop and n.running is not
\* set; a call of Cleanup made while a call of Run is in the control loop
\* returns the error 'still running' and changes nothing else.
C23_CleanupNeedsStopped ==
    [][/\ (link' # link \/ (kernel' = NewLink /\ kernel # NewLink /\ run' # run))
            => (~RunActive /\ ~running /\ run'[Cleaner].err = "nil")
       /\ (RunActive /\ run'[Cleaner] # run[Cleaner])
            => /\ run'[Cleaner].pc = "returned"
               /\ run'[Cleaner].err = "still running"
               /\ UNCHANGED <<link, kernel, peers, watchers, running, nmu, chans>>
               /\ \A r \in Runners : run'[r] = run[r]]_vars

\* C23 witness: a call of Cleanup has returned 'still running' while a tick
\* of the loop publishes to a watcher, after the context of the call of Run
\* was cancelled; the link is there.
C23_Witness ==
    /\ run[Cleaner].err = "still running"
    /\ \E r \in Runners : run[r].pc = "notify" /\ run[r].cancelled
    /\ ~link.nil
    /\ kernel.up

\* C24 as claimed: no watcher channel is closed more than once, and no call
\* of Run has sent an event on a channel that was closed.
C24_ChannelsClosedOnce ==
    /\ \A c \in 1..Len(chans) : chans[c].closes <= 1
    /\ \A r \in Runners : ~(run[r].pc = "panicked" /\ run[r].out = "panic")

\* C25 as claimed: when a rotation phase ends, every peer it has given
\* another selected endpoint in the map, and that the device has, has that
\* endpoint in the device.
C25_RotationInSync ==
    [][\A r \in Runners :
        (run[r].pc = "rotate" /\ run'[r].pc # "rotate")
        => \A k \in Keys :
              (/\ peers.m[k].present
               /\ peers'.m[k].config.endpoint # peers.m[k].config.endpoint
               /\ kernel.peers[k].present)
              => kernel'.peers[k].endpoint = peers'.m[k].config.endpoint]_vars

\* The keys of the peers map.
MapKeys == {k \in Keys : peers.m[k].present}

\* A step of Configure: the record of the last call is that of a config,
\* and no call of Run or Cleanup has moved and no channel was handed out.
ConfigureStep ==
    /\ last'.config # NoConfig
    /\ run' = run
    /\ chans' = chans
    /\ <<kernel, peers, last>>' # <<kernel, peers, last>>

\* C26: a Configure whose device read succeeded leaves the peers map with
\* exactly the public keys of its config, also when toDeviceConfig or the
\* device apply fails after it; a Configure whose device read failed leaves
\* the map as it was; no other step, and so no step of a tick, adds or
\* removes an entry, so that the keys of the map are those of the most recent
\* config whose device read succeeded; and the device phase of a tick
\* publishes no event for a peer of the device that the map lacks.
C26_MapKeysOfConfig ==
    [][/\ ConfigureStep
            => IF last'.err \in {"wgctrl.New", "Device"}
               THEN peers' = peers
               ELSE /\ ~peers'.nil
                    /\ MapKeys' = {pc.publicKey : pc \in last'.config.peers}
       /\ ~ConfigureStep
            => /\ MapKeys' = MapKeys
               /\ peers'.nil = peers.nil
       /\ \A r \in Runners :
            (run[r].pc = "loop" /\ run'[r].pc = "notify")
            => \A j \in 1..Len(run'[r].events) : run'[r].events[j][1] \in MapKeys]_vars

\* C26 witness: the device has k2 and the map has not, which is so after a
\* Configure without k2 whose toDeviceConfig or device apply failed; the
\* device phase of a tick publishes the endpoint of k1 and nothing of k2.
C26_Witness ==
    \E r \in Runners :
        /\ run[r].pc = "notify"
        /\ run[r].phase = "device"
        /\ kernel.peers["k2"].present
        /\ ~peers.m["k2"].present
        /\ peers.m["k1"].present
        /\ run[r].events[1][1] = "k1"

====
